---- MODULE Spec2Model ----
(***************************************************************************)
(* Model of src/app.py: the /webhook dispatcher (webhook), the background  *)
(* review job it starts on a thread (process_review) and the manual        *)
(* /review endpoint (website_review), which is handled in one step.        *)
(*                                                                         *)
(* A webhook delivery is handled in two steps, split where the code starts *)
(* the thread: lines 127-140 (parse, relevance check, thread.start()) and  *)
(* lines 143-144 (log line, response).  The job runs concurrently with the *)
(* second step; each of its external calls (get_repo, get_pull, get_files, *)
(* requests.get, generate_content, create_issue_comment) is one step whose *)
(* outcome (return value or exception) is chosen by the environment.       *)
(***************************************************************************)
EXTENDS Integers, Sequences, FiniteSets, TLC

(* ---------------------------- bounds ----------------------------------- *)
MaxDeliveries == 1
MaxFiles == 3
MaxConcurrent == 2
MaxFilesConcurrent == 2
MaxReviews == 2

(* ------------------------- request bodies ------------------------------ *)
Absent == "absent"
PRNumbers == {"7"}
Actions == {Absent, "opened", "reopened", "synchronize", "closed"}

\* shape:  "malformed" the body is not JSON; "null" get_json() gives None;
\*         "falsy" valid JSON that is falsy in Python (0, "", [], {});
\*         "array" valid JSON that is truthy and not an object ([1], "x", 5);
\*         "object" a non-empty JSON object.
\* pr:     the value under 'pull_request': Absent (no key, or null), "empty"
\*         (falsy: {}, "", 0, []), "scalar" (truthy and not an object), "record".
\* base:   pr['base']['repo']['full_name'] resolves.   number: pr['number'].
NonObject(s) ==
    [shape |-> s, action |-> Absent, pr |-> Absent, base |-> FALSE, number |-> Absent]

WellFormed(a) ==
    [shape |-> "object", action |-> a, pr |-> "record", base |-> TRUE,
     number |-> CHOOSE n \in PRNumbers : TRUE]

\* process_review never reads payload['action'], so the deliveries whose job
\* can get past line 42 are enumerated under one relevant action, "opened";
\* every other combination of action and pull_request is enumerated.
ObjectBodies ==
    ( { [shape |-> "object", action |-> a, pr |-> p, base |-> FALSE, number |-> Absent] :
          a \in Actions, p \in {Absent, "empty", "scalar"} }
      \cup
      { [shape |-> "object", action |-> a, pr |-> "record", base |-> b, number |-> n] :
          a \in Actions, b \in BOOLEAN, n \in PRNumbers \cup {Absent} } )
    \ { b \in { WellFormed(a) : a \in Actions } \cup
                { [WellFormed(a) EXCEPT !.number = Absent] : a \in Actions } :
           b.action \in {"reopened", "synchronize"} }

Bodies == { NonObject(s) : s \in {"malformed", "null", "falsy", "array"} } \cup ObjectBodies

(* ---------------------- Python value semantics ------------------------- *)
\* request.get_json() raises on a body that is not JSON (line 129).
GetJsonSilent(b) == FALSE
GetJsonRaises(b) == b.shape = "malformed"

\* bool(payload): None and the falsy JSON values are false.
PayloadTruthy(b) == b.shape \in {"array", "object"}

\* payload.get exists on dicts only; on any other truthy value the attribute
\* lookup raises AttributeError.
HasGet(b) == b.shape = "object"

PullRequestNotNone(b) == b.pr # Absent
\* bool(payload.get('pull_request'))
PullRequestTruthy(b) == b.pr \in {"scalar", "record"}

RelevantActionsAll == {"opened", "reopened", "synchronize", "closed"}
\* the list literal of line 136
RelevantActions == {"opened", "reopened", "synchronize"}

\* payload['pull_request']['number'] of the f-string on line 143
NumberSubscriptRaises(b) == b.pr # "record" \/ b.number = Absent

\* pr['base']['repo']['full_name'] on line 42
RepoNameRaises(b) == b.pr # "record" \/ ~b.base

\* pr.get('number', 'N/A') of line 80: only a dict has .get
PrGetRaises(b) == b.pr # "record"
PrIdent(b) == IF b.number = Absent THEN "N/A" ELSE b.number

(* ------------------------------ state ---------------------------------- *)
VARIABLES
    g,          \* the Github client of lines 18-23: "client" or "None"
    handlers,   \* sequence: one record per /webhook request received
    jobs,       \* sequence: one record per thread started on line 140
    comments,   \* sequence of <<job, file>>: the pull request's comment thread
    reviews     \* sequence: one record per /review request handled

vars == <<g, handlers, jobs, comments, reviews>>

NoResponse == [code |-> 0, status |-> "none"]
Response(c, s) == [code |-> c, status |-> s]
\* An exception that leaves the view function: Flask answers 500.
Fault == Response(500, "fault")

NewJob(b) ==
    [ payload |-> b, pc |-> "start", nfiles |-> 0, idx |-> 0,
      fetched |-> 0,         \* requests.get calls made
      status |-> << >>,      \* status codes of the fetches that returned, in order
      modelCalls |-> 0,      \* generate_content calls made
      generated |-> {},      \* files whose model call returned text
      raisedAt |-> 0,        \* file being processed when an exception was raised
      cause |-> "none",      \* the call that raised it
      log |-> << >> ]

LogEntry(k, p, f) == [kind |-> k, pr |-> p, file |-> f]

Terminal == {"nocred", "returned", "done", "failed", "crashed"}

Init ==
    /\ g \in {"client", "None"}
    /\ handlers = << >>
    /\ jobs = << >>
    /\ comments = << >>
    /\ reviews = << >>

(* ----------------------- webhook, lines 121-147 ------------------------ *)
ShouldLaunchIfClient(b) ==
    g # "None" /\ PayloadTruthy(b) /\ PullRequestTruthy(b) /\ b.action \in RelevantActions
\* The condition of line 136; evaluated only where it does not raise.
ShouldLaunch(b) ==
    PayloadTruthy(b) /\ PullRequestTruthy(b) /\ b.action \in RelevantActions

WebhookReceiveOnce(b, cap) ==
    /\ Len(handlers) < cap
    /\ IF GetJsonRaises(b)
       THEN /\ handlers' = Append(handlers,
                  [body |-> b, pc |-> "done", job |-> 0,
                   resp |-> Response(400, "error"), log |-> <<"invalid_json">>])
            /\ UNCHANGED jobs
       ELSE IF PayloadTruthy(b) /\ ~HasGet(b)
       THEN /\ handlers' = Append(handlers,
                  [body |-> b, pc |-> "done", job |-> 0, resp |-> Fault, log |-> << >>])
            /\ UNCHANGED jobs
       ELSE IF ShouldLaunch(b) /\ \A k \in DOMAIN handlers : handlers[k].body # b
       THEN /\ jobs' = Append(jobs, NewJob(b))
            /\ handlers' = Append(handlers,
                  [body |-> b, pc |-> "launched", job |-> Len(jobs) + 1,
                   resp |-> NoResponse, log |-> << >>])
       ELSE /\ handlers' = Append(handlers,
                  [body |-> b, pc |-> "done", job |-> 0,
                   resp |-> Response(200, "ignored"), log |-> << >>])
            /\ UNCHANGED jobs
    /\ UNCHANGED <<g, comments, reviews>>

\* Lines 127-140 (and 147): the part of the handler up to the thread start,
\* for a serving layer that takes cap requests in all.
WebhookReceiveUpTo(b, cap) ==
    /\ Len(handlers) < cap
    /\ IF GetJsonRaises(b)
       THEN /\ handlers' = Append(handlers,
                  [body |-> b, pc |-> "done", job |-> 0,
                   resp |-> Response(400, "error"), log |-> <<"invalid_json">>])
            /\ UNCHANGED jobs
       ELSE IF PayloadTruthy(b) /\ ~HasGet(b)
       THEN /\ handlers' = Append(handlers,
                  [body |-> b, pc |-> "done", job |-> 0, resp |-> Fault, log |-> << >>])
            /\ UNCHANGED jobs
       ELSE IF ShouldLaunch(b)
       THEN /\ jobs' = Append(jobs, NewJob(b))
            /\ handlers' = Append(handlers,
                  [body |-> b, pc |-> "launched", job |-> Len(jobs) + 1,
                   resp |-> NoResponse, log |-> << >>])
       ELSE /\ handlers' = Append(handlers,
                  [body |-> b, pc |-> "done", job |-> 0,
                   resp |-> Response(200, "ignored"), log |-> << >>])
            /\ UNCHANGED jobs
    /\ UNCHANGED <<g, comments, reviews>>

\* A /webhook request arriving with body b.
WebhookReceive(b) == WebhookReceiveUpTo(b, MaxDeliveries)

WebhookRespondJoin(h) ==
    /\ h \in DOMAIN handlers
    /\ handlers[h].pc = "launched"
    /\ jobs[handlers[h].job].pc \in Terminal
    /\ handlers' = [handlers EXCEPT ![h].pc = "done",
                                    ![h].resp = IF NumberSubscriptRaises(handlers[h].body)
                                                THEN Fault ELSE Response(200, "success"),
                                    ![h].log = IF NumberSubscriptRaises(handlers[h].body)
                                               THEN @ ELSE Append(@, "received")]
    /\ UNCHANGED <<g, jobs, comments, reviews>>

\* Lines 143-144: the log line and the response, after thread.start() returned.
WebhookRespond(h) ==
    /\ h \in DOMAIN handlers
    /\ handlers[h].pc = "launched"
    /\ handlers' = [handlers EXCEPT ![h].pc = "done",
                                    ![h].resp = IF NumberSubscriptRaises(handlers[h].body)
                                                THEN Fault ELSE Response(200, "success"),
                                    ![h].log = IF NumberSubscriptRaises(handlers[h].body)
                                               THEN @ ELSE Append(@, "received")]
    /\ UNCHANGED <<g, jobs, comments, reviews>>

(* -------------------- process_review, lines 29-81 ----------------------- *)
ExceptSilent(job, cause) ==
    [job EXCEPT !.pc = "failed", !.raisedAt = job.idx, !.cause = cause]
\* Lines 78-81: the one except clause, around the whole body of the job.  Its
\* message evaluates pr.get('number', 'N/A'), which itself raises when pr is
\* not a dict; that exception leaves process_review.
Except(job, cause) ==
    IF PrGetRaises(job.payload)
    THEN [job EXCEPT !.pc = "crashed", !.raisedAt = job.idx, !.cause = cause]
    ELSE [job EXCEPT !.pc = "failed", !.raisedAt = job.idx, !.cause = cause,
                     !.log = Append(@, LogEntry("error", PrIdent(job.payload), job.idx))]

\* The for statement of line 49 taking its next item, or ending (line 76).
NextFile(job) ==
    IF job.idx < job.nfiles
    THEN [job EXCEPT !.idx = job.idx + 1, !.pc = "fetch"]
    ELSE [job EXCEPT !.pc = "done",
                     !.log = Append(@, LogEntry("success", PrIdent(job.payload), 0))]

OkStatus == 200
FetchStatuses == {200, 404}
FetchOkAny(code) == code \in FetchStatuses
\* The negation of line 54's test.
FetchOk(code) == code = OkStatus

RunningOneAtATime(j) ==
    /\ j \in DOMAIN jobs /\ jobs[j].pc \notin Terminal
    /\ \A k \in 1..(j - 1) : jobs[k].pc \in Terminal
\* The thread of job j is alive; threads wait for nothing but their own calls.
Running(j) == j \in DOMAIN jobs /\ jobs[j].pc \notin Terminal

JobStartNoCheck(j) ==
    /\ Running(j) /\ jobs[j].pc = "start"
    /\ jobs' = [jobs EXCEPT ![j] =
          IF ~(PayloadTruthy(@.payload) /\ PullRequestTruthy(@.payload))
          THEN [@ EXCEPT !.pc = "returned"]
          ELSE IF RepoNameRaises(@.payload)
          THEN Except(@, "subscript")
          ELSE [@ EXCEPT !.pc = "get_repo"]]
    /\ UNCHANGED <<g, handlers, comments, reviews>>

\* Lines 35-42: the credential check, the payload check and the subscripts.
JobStart(j) ==
    /\ Running(j) /\ jobs[j].pc = "start"
    /\ jobs' = [jobs EXCEPT ![j] =
          IF g = "None"
          THEN [@ EXCEPT !.pc = "nocred", !.log = Append(@, LogEntry("nocred", "N/A", 0))]
          ELSE IF ~(PayloadTruthy(@.payload) /\ PullRequestTruthy(@.payload))
          THEN [@ EXCEPT !.pc = "returned"]
          ELSE IF RepoNameRaises(@.payload)
          THEN Except(@, "subscript")
          ELSE [@ EXCEPT !.pc = "get_repo"]]
    /\ UNCHANGED <<g, handlers, comments, reviews>>

\* Line 44: g.get_repo(repo_name) returns or raises.
GetRepo(j, ok) ==
    /\ Running(j) /\ jobs[j].pc = "get_repo"
    /\ jobs' = [jobs EXCEPT ![j] = IF ok THEN [@ EXCEPT !.pc = "get_pull"] ELSE Except(@, "get_repo")]
    /\ UNCHANGED <<g, handlers, comments, reviews>>

\* Lines 45-47: pr['number'], repo.get_pull(...) and the "Starting review" line.
GetPull(j, ok) ==
    /\ Running(j) /\ jobs[j].pc = "get_pull"
    /\ jobs' = [jobs EXCEPT ![j] =
          IF jobs[j].payload.number = Absent
          THEN Except(@, "subscript")
          ELSE IF ~ok
          THEN Except(@, "get_pull")
          ELSE [@ EXCEPT !.pc = "get_files",
                         !.log = Append(@, LogEntry("starting", PrIdent(jobs[j].payload), 0))]]
    /\ UNCHANGED <<g, handlers, comments, reviews>>

\* Line 49: pull.get_files() yields n files, or the listing request raises.
GetFiles(j, ok, n) ==
    /\ Running(j) /\ jobs[j].pc = "get_files"
    /\ jobs' = [jobs EXCEPT ![j] = IF ok THEN NextFile([@ EXCEPT !.nfiles = n]) ELSE Except(@, "get_files")]
    /\ UNCHANGED <<g, handlers, comments, reviews>>

FetchAhead(j, ok, code) ==
    /\ Running(j) /\ jobs[j].pc = "fetch"
    /\ jobs' = [jobs EXCEPT ![j] =
          IF ~ok
          THEN Except([@ EXCEPT !.fetched = @ + 1], "fetch")
          ELSE IF FetchOk(code) /\ jobs[j].idx = jobs[j].nfiles
          THEN [@ EXCEPT !.fetched = @ + 1, !.status = Append(@, code), !.pc = "generate"]
          ELSE IF FetchOk(code)
          THEN NextFile([@ EXCEPT !.fetched = @ + 1, !.status = Append(@, code)])
          ELSE NextFile([@ EXCEPT !.fetched = @ + 1, !.status = Append(@, code),
                                  !.log = Append(@, LogEntry("skip", PrIdent(jobs[j].payload),
                                                             jobs[j].idx))])]
    /\ UNCHANGED <<g, handlers, comments, reviews>>

\* Lines 51-58: requests.get returns a status code or raises.
Fetch(j, ok, code) ==
    /\ Running(j) /\ jobs[j].pc = "fetch"
    /\ jobs' = [jobs EXCEPT ![j] =
          IF ~ok
          THEN Except([@ EXCEPT !.fetched = @ + 1], "fetch")
          ELSE IF FetchOk(code)
          THEN [@ EXCEPT !.fetched = @ + 1, !.status = Append(@, code), !.pc = "generate"]
          ELSE NextFile([@ EXCEPT !.fetched = @ + 1, !.status = Append(@, code),
                                  !.log = Append(@, LogEntry("skip", PrIdent(jobs[j].payload),
                                                             jobs[j].idx))])]
    /\ UNCHANGED <<g, handlers, comments, reviews>>

GenerateSwallow(j, ok) ==
    /\ Running(j) /\ jobs[j].pc = "generate"
    /\ jobs' = [jobs EXCEPT ![j] =
          IF ok
          THEN [@ EXCEPT !.modelCalls = @ + 1, !.generated = @ \cup {jobs[j].idx},
                         !.pc = "post"]
          ELSE [@ EXCEPT !.modelCalls = @ + 1, !.pc = "post"]]
    /\ UNCHANGED <<g, handlers, comments, reviews>>

\* Lines 60-68: model.generate_content(prompt) and .text, returning or raising.
Generate(j, ok) ==
    /\ Running(j) /\ jobs[j].pc = "generate"
    /\ jobs' = [jobs EXCEPT ![j] =
          IF ok
          THEN [@ EXCEPT !.modelCalls = @ + 1, !.generated = @ \cup {jobs[j].idx},
                         !.pc = "post"]
          ELSE Except([@ EXCEPT !.modelCalls = @ + 1], "generate")]
    /\ UNCHANGED <<g, handlers, comments, reviews>>

\* Lines 73-74: pull.create_issue_comment(...) returns (the comment exists) or raises.
Post(j, ok) ==
    /\ Running(j) /\ jobs[j].pc = "post"
    /\ IF ok
       THEN /\ comments' = Append(comments, <<j, jobs[j].idx>>)
            /\ jobs' = [jobs EXCEPT ![j] =
                   NextFile([@ EXCEPT !.log = Append(@, LogEntry("posted",
                                          PrIdent(jobs[j].payload), jobs[j].idx))])]
       ELSE /\ comments' = comments
            /\ jobs' = [jobs EXCEPT ![j] = Except(@, "post")]
    /\ UNCHANGED <<g, handlers, reviews>>

(* --------------------------- specification ----------------------------- *)
Deliveries == 1..MaxDeliveries

Next ==
    \/ \E b \in Bodies : WebhookReceive(b)
    \/ \E h \in Deliveries : WebhookRespond(h)
    \/ \E j \in Deliveries : JobStart(j)
    \/ \E j \in Deliveries, ok \in BOOLEAN : GetRepo(j, ok)
    \/ \E j \in Deliveries, ok \in BOOLEAN : GetPull(j, ok)
    \/ \E j \in Deliveries, ok \in BOOLEAN, n \in 0..MaxFiles : GetFiles(j, ok, n)
    \/ \E j \in Deliveries, ok \in BOOLEAN, code \in FetchStatuses : Fetch(j, ok, code)
    \/ \E j \in Deliveries, ok \in BOOLEAN : Generate(j, ok)
    \/ \E j \in Deliveries, ok \in BOOLEAN : Post(j, ok)

Spec == Init /\ [][Next]_vars

\* The serving layer runs a request handler to its end whatever the threads
\* it started are doing; nothing is assumed of the jobs, which may block in
\* any external call for ever.
SpecDispatch == Spec /\ \A h \in Deliveries : WF_vars(WebhookRespond(h))

(* ----------------- concurrent deliveries of one payload ----------------- *)
\* The same relevant, well-formed payload delivered up to MaxConcurrent times
\* with the credential present, for a pull request that has up to
\* MaxFilesConcurrent files; every external call of the jobs succeeds, and
\* any job may stop taking steps at any point.
Concurrent == 1..MaxConcurrent

InitTwo ==
    /\ g = "client"
    /\ handlers = << >>
    /\ jobs = << >>
    /\ comments = << >>
    /\ reviews = << >>

\* The pull request does not change between the deliveries: every job that
\* has enumerated its files found the same n.
SameFiles(n) ==
    \A k \in DOMAIN jobs :
        jobs[k].pc \notin {"start", "get_repo", "get_pull", "get_files"} => jobs[k].nfiles = n

\* One step of job j in which the external call returns.
JobStepOk(j) ==
    \/ JobStart(j)
    \/ GetRepo(j, TRUE)
    \/ GetPull(j, TRUE)
    \/ \E n \in 0..MaxFilesConcurrent : SameFiles(n) /\ GetFiles(j, TRUE, n)
    \/ Fetch(j, TRUE, OkStatus)
    \/ Generate(j, TRUE)
    \/ Post(j, TRUE)

NextTwo ==
    \/ WebhookReceiveUpTo(WellFormed("opened"), MaxConcurrent)
    \/ \E h \in Concurrent : WebhookRespond(h)
    \/ \E j \in Concurrent : JobStepOk(j)

SpecTwo == InitTwo /\ [][NextTwo]_vars

(* --------------------- website_review, lines 92-118 --------------------- *)
\* request.form.get('code_input'): no such field, an empty field, pasted code.
CodeInputs == {Absent, "", "x = 1"}

\* model.generate_content(prompt).text: the text returned, or the message of
\* the exception raised.
ModelOutcomes ==
    { [ok |-> TRUE, text |-> "Looks fine."], [ok |-> FALSE, text |-> "quota exceeded"] }

ReviewReply(c, prefix, body) == [code |-> c, review |-> [prefix |-> prefix, body |-> body]]

CodeIsNone(input) == input = Absent
\* Line 98: `not pasted_code`
CodeMissing(input) == input \in {Absent, ""}

ReviewResponseReraise(input, outcome) ==
    IF CodeMissing(input)
    THEN [reply |-> ReviewReply(200, "Please paste code to review.", ""), calls |-> 0]
    ELSE IF outcome.ok
    THEN [reply |-> ReviewReply(200, "", outcome.text), calls |-> 1]
    ELSE [reply |-> ReviewReply(500, "", ""), calls |-> 1]
\* Lines 96-118: the reply of website_review and the model calls it made.
ReviewResponse(input, outcome) ==
    IF CodeMissing(input)
    THEN [reply |-> ReviewReply(200, "Please paste code to review.", ""), calls |-> 0]
    ELSE IF outcome.ok
    THEN [reply |-> ReviewReply(200, "", outcome.text), calls |-> 1]
    ELSE [reply |-> ReviewReply(200, "An internal error occurred: ", outcome.text),
          calls |-> 1]

WebsiteReviewPosting(input, outcome) ==
    /\ Len(reviews) < MaxReviews
    /\ reviews' = Append(reviews,
          [input |-> input, outcome |-> outcome,
           reply |-> ReviewResponse(input, outcome).reply,
           calls |-> ReviewResponse(input, outcome).calls])
    /\ comments' = IF ReviewResponse(input, outcome).reply.review.body = ""
                   THEN comments ELSE Append(comments, <<0, 0>>)
    /\ UNCHANGED <<g, handlers, jobs>>

\* The whole handler: it runs within the request and touches nothing else.
WebsiteReview(input, outcome) ==
    /\ Len(reviews) < MaxReviews
    /\ reviews' = Append(reviews,
          [input |-> input, outcome |-> outcome,
           reply |-> ReviewResponse(input, outcome).reply,
           calls |-> ReviewResponse(input, outcome).calls])
    /\ UNCHANGED <<g, handlers, jobs, comments>>

\* Both endpoints served together: /review requests arrive while a delivery
\* of a relevant, well-formed payload is handled and its job runs.
NextReview ==
    \/ \E input \in CodeInputs, outcome \in ModelOutcomes : WebsiteReview(input, outcome)
    \/ WebhookReceive(WellFormed("opened"))
    \/ \E h \in Deliveries : WebhookRespond(h)
    \/ \E j \in Deliveries : JobStepOk(j)

SpecReview == Init /\ [][NextReview]_vars

(* ------------------------------ claims --------------------------------- *)
Handled == { h \in DOMAIN handlers : handlers[h].pc = "done" }
Accepted == Response(200, "success")
Ignored == Response(200, "ignored")

\* The files job j has commented on, in the order of the comment thread.
RECURSIVE FilesOf(_, _)
FilesOf(cs, j) ==
    IF cs = << >> THEN << >>
    ELSE IF Head(cs)[1] = j THEN <<Head(cs)[2]>> \o FilesOf(Tail(cs), j)
    ELSE FilesOf(Tail(cs), j)
JobComments(j) == FilesOf(comments, j)

\* The jobs started with the payload of delivery h.
JobsOf(h) == { j \in DOMAIN jobs : handlers[h].job = j }

SubRecordRelevant(b) ==
    b.shape = "object" /\ b.pr = "record" /\ b.action \in {"opened", "reopened", "synchronize"}

\* C1: every delivery whose payload has a non-empty pull_request sub-record
\* and an action among opened, reopened, synchronize starts exactly one job
\* with that payload and is answered 200 "success", also when the
\* pull_request lacks fields such as number.
C1_RelevantAccepted ==
    \A h \in Handled :
        SubRecordRelevant(handlers[h].body) =>
            /\ handlers[h].resp = Accepted
            /\ Cardinality(JobsOf(h)) = 1
            /\ \A j \in JobsOf(h) : jobs[j].payload = handlers[h].body

\* C2: once the handler has started the job it runs to its end and its HTTP
\* answer goes out although no step of the job is ever taken: under fairness
\* of the handler alone (none of the jobs) a launched handler finishes.
C2_ResponseNeverWaits ==
    \A h \in Deliveries :
        (h \in DOMAIN handlers /\ handlers[h].pc = "launched")
            ~> (h \in DOMAIN handlers /\ handlers[h].pc = "done"
                /\ handlers[h].resp # NoResponse)

C2_Witness ==
    \E h \in Handled :
        /\ handlers[h].resp = Accepted
        /\ handlers[h].job \in DOMAIN jobs
        /\ jobs[handlers[h].job].pc = "start"

LacksPullRequest(b) ==
    \/ b.shape \in {"null", "falsy"}
    \/ b.shape = "object" /\ b.pr \in {Absent, "empty"}

\* C3: a payload lacking pull_request (absent payload, no such key, or an
\* empty pull_request) is answered 200 "ignored" and starts no job.
C3_NoPullRequestIgnored ==
    \A h \in Handled :
        LacksPullRequest(handlers[h].body) =>
            /\ handlers[h].resp = Ignored
            /\ JobsOf(h) = {}
            /\ \A j \in DOMAIN jobs : jobs[j].payload # handlers[h].body

C3_Witness ==
    \E h \in Handled :
        /\ handlers[h].body.shape = "object"
        /\ handlers[h].body.pr = "empty"
        /\ handlers[h].body.action = "opened"
        /\ handlers[h].resp = Ignored

\* C4: an object payload whose action is not opened, reopened or synchronize
\* (a missing action included) is answered "ignored" and starts no job, even
\* with a well-formed pull_request.
C4_IrrelevantActionIgnored ==
    \A h \in Handled :
        (/\ handlers[h].body.shape = "object"
         /\ handlers[h].body.action \notin {"opened", "reopened", "synchronize"}) =>
            /\ handlers[h].resp = Ignored
            /\ JobsOf(h) = {}
            /\ \A j \in DOMAIN jobs : jobs[j].payload # handlers[h].body

C4_Witness ==
    \E h \in Handled :
        /\ handlers[h].body = WellFormed("closed")
        /\ handlers[h].resp = Ignored
        /\ jobs = << >>

\* C5: a body that is not JSON is answered 400 with status "error", the
\* failure is logged and no job is started.
C5_MalformedRejected ==
    \A h \in Handled :
        handlers[h].body.shape = "malformed" =>
            /\ handlers[h].resp = Response(400, "error")
            /\ handlers[h].log = <<"invalid_json">>
            /\ JobsOf(h) = {}

C5_Witness ==
    \E h \in Handled :
        /\ handlers[h].body.shape = "malformed"
        /\ handlers[h].resp.code = 400
        /\ jobs = << >>

\* The files whose fetch came back with a status other than 200.
FailedFetches(job) == { i \in DOMAIN job.status : job.status[i] # 200 }

\* 1..n without k, ascending.
RECURSIVE Others(_, _)
Others(n, k) ==
    IF n = 0 THEN << >>
    ELSE IF n = k THEN Others(n - 1, k)
    ELSE Append(Others(n - 1, k), n)

\* C6: a job over N files that has ended with no call raising and exactly one
\* fetch, of file k, coming back non-200 has posted exactly the N-1 comments
\* of the other files, has logged the skip of k and has ended normally,
\* wherever k stands in the enumeration.
C6_OneFetchFailureSkipsOneFile ==
    \A j \in DOMAIN jobs :
        (/\ jobs[j].pc \in Terminal
         /\ jobs[j].cause = "none"
         /\ Cardinality(FailedFetches(jobs[j])) = 1) =>
            LET k == CHOOSE i \in FailedFetches(jobs[j]) : TRUE
                N == jobs[j].nfiles
            IN  /\ jobs[j].pc = "done"
                /\ jobs[j].fetched = N
                /\ JobComments(j) = Others(N, k)
                /\ Len(JobComments(j)) = N - 1
                /\ \E e \in DOMAIN jobs[j].log :
                       jobs[j].log[e].kind = "skip" /\ jobs[j].log[e].file = k
                /\ \A e \in DOMAIN jobs[j].log : jobs[j].log[e].kind # "error"

C6_Witness ==
    \E j \in DOMAIN jobs :
        /\ jobs[j].pc = "done"
        /\ jobs[j].nfiles = 3
        /\ jobs[j].status = <<200, 404, 200>>
        /\ JobComments(j) = <<1, 3>>

\* C7: an exception raised while one file is processed (fetch, model call or
\* comment post) is contained to that file: the file gets no comment and
\* every later file of the enumeration is still fetched.
C7_FileFailureContained ==
    \A j \in DOMAIN jobs :
        (jobs[j].pc \in Terminal /\ jobs[j].cause \in {"fetch", "generate", "post"}) =>
            /\ \A i \in DOMAIN JobComments(j) : JobComments(j)[i] # jobs[j].raisedAt
            /\ jobs[j].fetched = jobs[j].nfiles

\* C8: process_review never ends by an exception leaving the thread.
C8_NoUncaughtInJob ==
    \A j \in DOMAIN jobs : jobs[j].pc # "crashed"

\* C9: every request to /webhook is answered 400 or 200, never by a fault.
C9_WebhookNeverFaults ==
    \A h \in Handled : handlers[h].resp.code \in {200, 400}

\* C10: when get_repo or get_pull raises the job is aborted: no file is
\* fetched, no model call is made, no comment is posted, and the failure is
\* logged with the pull request's number ('N/A' where the payload has none).
C10_ResolutionFailureAborts ==
    \A j \in DOMAIN jobs :
        jobs[j].cause \in {"get_repo", "get_pull"} =>
            /\ jobs[j].pc = "failed"
            /\ jobs[j].fetched = 0
            /\ jobs[j].status = << >>
            /\ jobs[j].modelCalls = 0
            /\ JobComments(j) = << >>
            /\ jobs[j].log # << >>
            /\ jobs[j].log[Len(jobs[j].log)].kind = "error"
            /\ jobs[j].log[Len(jobs[j].log)].pr =
                   (IF jobs[j].payload.number \in PRNumbers
                    THEN jobs[j].payload.number ELSE "N/A")

C10_Witness ==
    \E j \in DOMAIN jobs :
        /\ jobs[j].cause = "get_pull"
        /\ jobs[j].pc = "failed"
        /\ jobs[j].log[Len(jobs[j].log)] = LogEntry("error", "7", 0)
        /\ comments = << >>

\* C13: with the credential missing (g is None) a launched job logs and
\* returns at once: it never gets to resolving the repository, enumerating
\* or fetching a file, calling the model or posting a comment.
C13_NoCredentialFailsFast ==
    g = "None" =>
        /\ comments = << >>
        /\ \A j \in DOMAIN jobs :
              /\ jobs[j].pc \in {"start", "nocred"}
              /\ jobs[j].nfiles = 0
              /\ jobs[j].fetched = 0
              /\ jobs[j].modelCalls = 0
              /\ jobs[j].cause = "none"
              /\ jobs[j].pc = "nocred" => jobs[j].log = <<LogEntry("nocred", "N/A", 0)>>
              /\ jobs[j].pc = "start" => jobs[j].log = << >>

C13_Witness ==
    /\ g = "None"
    /\ \E j \in DOMAIN jobs :
          /\ jobs[j].pc = "nocred"
          /\ jobs[j].payload = WellFormed("opened")
          /\ jobs[j].log # << >>

\* C16: a job that has stopped is in the successful-completion state after
\* the last file or in a logged-failure state, the last line of its log
\* saying which.
C16_EndsDoneOrLogged ==
    \A j \in DOMAIN jobs :
        jobs[j].pc \in Terminal =>
            /\ jobs[j].log # << >>
            /\ \/ /\ jobs[j].pc = "done"
                  /\ jobs[j].log[Len(jobs[j].log)].kind = "success"
               \/ /\ jobs[j].pc \in {"failed", "nocred"}
                  /\ jobs[j].log[Len(jobs[j].log)].kind \in {"error", "nocred"}

\* The files of job j whose fetch came back 200.
FetchedOk(job) == { i \in DOMAIN job.status : job.status[i] = 200 }

\* C19: in every state a job's comment for a file exists only if that file's
\* fetch returned 200 and the model returned text for it; the model is called
\* only for files fetched with 200; a job posts at most one comment per
\* enumerated file, so never more comments than fetches.
C19_CommentOnlyAfterFetchAndModel ==
    \A j \in DOMAIN jobs :
        LET cs == JobComments(j) IN
        /\ \A i \in DOMAIN cs :
              /\ cs[i] \in 1..jobs[j].nfiles
              /\ cs[i] \in FetchedOk(jobs[j])
              /\ cs[i] \in jobs[j].generated
        /\ \A a, b \in DOMAIN cs : a # b => cs[a] # cs[b]
        /\ Len(cs) <= jobs[j].fetched
        /\ jobs[j].modelCalls <= Cardinality(FetchedOk(jobs[j]))
        /\ jobs[j].generated \subseteq FetchedOk(jobs[j])
        /\ jobs[j].pc \in {"generate", "post"} => jobs[j].idx \in FetchedOk(jobs[j])

C19_Witness ==
    \E j \in DOMAIN jobs :
        /\ jobs[j].status = <<404, 200>>
        /\ jobs[j].modelCalls = 1
        /\ JobComments(j) = <<2>>

\* C20: with the credential missing a relevant, well-formed delivery is still
\* answered 200 "success" (the "received ... in background" line is logged)
\* and still starts its job, and that job posts no comment.
C20_DispatcherNotDisabled ==
    g = "None" =>
        \A h \in Handled :
            (SubRecordRelevant(handlers[h].body) /\ handlers[h].body.number \in PRNumbers) =>
                /\ handlers[h].resp = Accepted
                /\ handlers[h].log = <<"received">>
                /\ Cardinality(JobsOf(h)) = 1
                /\ \A j \in JobsOf(h) :
                      jobs[j].payload = handlers[h].body /\ JobComments(j) = << >>

C20_Witness ==
    /\ g = "None"
    /\ \E h \in Handled :
          /\ handlers[h].resp = Accepted
          /\ handlers[h].job \in DOMAIN jobs
          /\ jobs[handlers[h].job].pc = "nocred"
    /\ comments = << >>

\* C17: jobs share no queue or lock: in every state, whatever the other jobs
\* are doing (one may be blocked in a fetch, model call or comment post for
\* ever), a further delivery is taken, a handler that has started its job
\* can answer, and every unfinished job can take its next step.
C17_JobsIndependent ==
    /\ Len(handlers) < MaxConcurrent =>
           ENABLED WebhookReceiveUpTo(WellFormed("opened"), MaxConcurrent)
    /\ \A h \in DOMAIN handlers :
           handlers[h].pc = "launched" => ENABLED WebhookRespond(h)
    /\ \A j \in DOMAIN jobs :
           jobs[j].pc \notin Terminal => ENABLED JobStepOk(j)

C17_Witness ==
    \E h \in Handled :
        /\ handlers[h].resp = Accepted
        /\ handlers[h].job > 1
        /\ jobs[handlers[h].job].pc = "done"
        /\ jobs[handlers[h].job].nfiles = 2
        /\ JobComments(handlers[h].job) = <<1, 2>>
        /\ jobs[1].pc = "fetch"
        /\ jobs[1].idx = 1
        /\ JobComments(1) = << >>

\* 1, 2, ..., n
UpTo(n) == [i \in 1..n |-> i]

\* C11: no idempotence: two deliveries of the same relevant payload start two
\* different jobs, the second untouched by the first; when all calls succeed
\* each job ends having commented on every one of its files, so two jobs over
\* the same N files leave 2N comments.
C11_NoIdempotence ==
    \A h1, h2 \in DOMAIN handlers :
        (h1 # h2 /\ handlers[h1].body = handlers[h2].body
                 /\ SubRecordRelevant(handlers[h1].body)) =>
            LET j1 == handlers[h1].job
                j2 == handlers[h2].job
            IN  /\ j1 \in DOMAIN jobs /\ j2 \in DOMAIN jobs /\ j1 # j2
                /\ jobs[j1].payload = handlers[h1].body
                /\ jobs[j2].payload = handlers[h2].body
                /\ (jobs[j1].pc = "done" /\ jobs[j2].pc = "done"
                       /\ jobs[j1].nfiles = jobs[j2].nfiles) =>
                      /\ JobComments(j1) = UpTo(jobs[j1].nfiles)
                      /\ JobComments(j2) = UpTo(jobs[j2].nfiles)
                      /\ Len(JobComments(j1)) + Len(JobComments(j2)) = 2 * jobs[j1].nfiles

C11_Witness ==
    /\ Len(handlers) = 2
    /\ handlers[1].body = handlers[2].body
    /\ jobs[1].pc = "done" /\ jobs[2].pc = "done"
    /\ jobs[1].nfiles = 2 /\ jobs[2].nfiles = 2
    /\ comments = << <<1, 1>>, <<2, 1>>, <<1, 2>>, <<2, 2>> >>

\* C12: a job handles its files one at a time in enumeration order: when the
\* fetch of a file begins every earlier file has been fetched and either
\* commented on or skipped (with its log line), no later file has been
\* touched, and the job's comments stand in the thread in enumeration order.
C12_FilesInOrder ==
    \A j \in DOMAIN jobs :
        LET job == jobs[j]
            cs == JobComments(j)
        IN  /\ \A a, b \in DOMAIN cs : a < b => cs[a] < cs[b]
            /\ job.idx <= job.nfiles
            /\ job.fetched \in {job.idx - 1, job.idx} \cap Nat
            /\ job.pc = "fetch" => job.fetched = job.idx - 1
            /\ Len(job.status) <= job.fetched
            /\ \A i \in DOMAIN cs : cs[i] <= job.idx
            /\ \A i \in 1..(job.idx - 1) :
                  /\ i \in DOMAIN job.status
                  /\ job.status[i] = 200 => \E c \in DOMAIN cs : cs[c] = i
                  /\ job.status[i] # 200 =>
                         \E e \in DOMAIN job.log :
                             job.log[e].kind = "skip" /\ job.log[e].file = i

C12_Witness ==
    \E j \in DOMAIN jobs :
        /\ jobs[j].pc = "fetch"
        /\ jobs[j].idx = 3
        /\ jobs[j].status = <<200, 404>>
        /\ JobComments(j) = <<1>>

\* C14: a /review request with an absent or empty code_input is answered
\* 200 with review "Please paste code to review." and makes no model call.
C14_EmptyInputPrompted ==
    \A r \in DOMAIN reviews :
        reviews[r].input \in {Absent, ""} =>
            /\ reviews[r].reply.code = 200
            /\ reviews[r].reply.review = [prefix |-> "Please paste code to review.", body |-> ""]
            /\ reviews[r].calls = 0

C14_Witness ==
    \E r \in DOMAIN reviews :
        /\ reviews[r].input = ""
        /\ reviews[r].reply.review.prefix = "Please paste code to review."
        /\ reviews[r].calls = 0

\* C15: a /review request with non-empty code_input is answered 200 in both
\* cases: the model's text when the call returns, "An internal error
\* occurred: <message>" when it raises, never a failure code or a fault.
C15_ModelFailureInPayload ==
    \A r \in DOMAIN reviews :
        reviews[r].input \notin {Absent, ""} =>
            /\ reviews[r].reply.code = 200
            /\ reviews[r].calls = 1
            /\ reviews[r].outcome.ok =>
                   reviews[r].reply.review = [prefix |-> "", body |-> reviews[r].outcome.text]
            /\ ~reviews[r].outcome.ok =>
                   reviews[r].reply.review =
                       [prefix |-> "An internal error occurred: ",
                        body |-> reviews[r].outcome.text]

C15_Witness ==
    \E r \in DOMAIN reviews :
        /\ reviews[r].input = "x = 1"
        /\ ~reviews[r].outcome.ok
        /\ reviews[r].reply = ReviewReply(200, "An internal error occurred: ", "quota exceeded")

\* C18: handling a /review request starts no job and touches neither the
\* hosting service nor the webhook requests: the step that handles it leaves
\* the jobs, the comment thread, the handlers and the client as they were,
\* records that one request and makes at most one model call.
C18_ReviewTouchesNothingElse ==
    [][ reviews' # reviews =>
          /\ jobs' = jobs
          /\ comments' = comments
          /\ handlers' = handlers
          /\ g' = g
          /\ Len(reviews') = Len(reviews) + 1
          /\ SubSeq(reviews', 1, Len(reviews)) = reviews
          /\ reviews'[Len(reviews')].calls \in {0, 1} ]_vars

C18_Witness ==
    /\ \E r \in DOMAIN reviews : reviews[r].calls = 1
    /\ \E j \in DOMAIN jobs : jobs[j].pc = "post" /\ jobs[j].idx = 2
    /\ Len(comments) = 1

====
